---- MODULE Spec2Model ----
(***************************************************************************)
(* Model of ec2-start-stop.py: a scheduled job that starts and stops EC2   *)
(* instances of several accounts according to their NoShutdown / Schedule  *)
(* tags and to the configured start and stop times.                        *)
(*                                                                         *)
(* Python values are modelled as follows.                                  *)
(*   - None is the empty sequence <<>>, a value v that may be None is <<v>>*)
(*   - a datetime is a record [year, month, day, hour, minute]             *)
(*   - a datetime.time is a pair <<hour, minute>>                          *)
(*   - a call on the boto client is a record appended to the log `calls`   *)
(***************************************************************************)
EXTENDS Integers, Sequences, FiniteSets, TLC

VARIABLES
    pc,            \* position of lambda_handler
    config,        \* the configuration returned by fetch_config_from_s3 (or None)
    idx,           \* index in config['role_arns'] of the account being processed
    ec2_user,      \* the client create_temp_user returned for this account (or None)
    times,         \* what convert_to_datetime returned for this account (or None)
    data,          \* the snapshot describe_instances returned in this pass (or None)
    result,        \* what get_instance_ids returned in this pass (or None)
    calls,         \* the boto calls made in this account's pass, in order
    ran,           \* start_stop has run for this account
    dispatched,    \* the indices of the role ARNs start_stop was called for
    lambda_error,  \* the error lambda_handler's except clause logged (or None)
    dst_in,        \* is_dst: the timestamp given
    dst_out        \* is_dst: the pair returned (or None)

vars == <<pc, config, idx, ec2_user, times, data, result, calls, ran, dispatched, lambda_error, dst_in, dst_out>>

handler_vars == <<pc, config, idx, ec2_user, times, data, result, calls, ran, dispatched, lambda_error>>

dst_vars == <<dst_in, dst_out>>

None == <<>>

Some(v) == <<v>>

\* ------------------------------------------------------------------ bounds

\* instances in one describe_instances snapshot
MaxInstances == 2

\* role ARNs in config['role_arns']
NumAccounts == 2

\* years the timestamps given to is_dst are drawn from, 2018 onwards
NumYears == 8

\* ------------------------------------------------------------ datetime

IsLeap(y) == (y % 4 = 0) /\ ((y % 100 # 0) \/ (y % 400 = 0))

DaysInMonth(y, m) ==
    IF m = 2 THEN (IF IsLeap(y) THEN 29 ELSE 28)
    ELSE IF m \in {4, 6, 9, 11} THEN 30 ELSE 31

\* datetime._days_before_year
DaysBeforeYear(y) == (y - 1) * 365 + ((y - 1) \div 4) - ((y - 1) \div 100) + ((y - 1) \div 400)

RECURSIVE DaysBeforeMonth(_, _)
DaysBeforeMonth(y, m) == IF m = 1 THEN 0 ELSE DaysBeforeMonth(y, m - 1) + DaysInMonth(y, m - 1)

\* date.toordinal(): 1 is January 1 of year 1
ToOrdinal(dt) == DaysBeforeYear(dt.year) + DaysBeforeMonth(dt.year, dt.month) + dt.day

\* date.weekday(): Monday is 0, Sunday is 6
weekday(dt) == (ToOrdinal(dt) + 6) % 7

\* date.fromordinal, for ordinals within a year of `near`
FromOrdinal(n, near, hour, minute) ==
    CHOOSE dt \in [year : (near - 1) .. (near + 1), month : 1 .. 12, day : 1 .. 31,
                   hour : {hour}, minute : {minute}] :
        /\ dt.day <= DaysInMonth(dt.year, dt.month)
        /\ ToOrdinal(dt) = n

\* datetime - timedelta(days=k)
MinusDays(dt, k) == FromOrdinal(ToOrdinal(dt) - k, dt.year, dt.hour, dt.minute)

\* datetime + timedelta(hours=1)
PlusHour(dt) ==
    IF dt.hour < 23 THEN [dt EXCEPT !.hour = dt.hour + 1]
    ELSE FromOrdinal(ToOrdinal(dt) + 1, dt.year, 0, dt.minute)

\* the key two naive datetimes are ordered by
Minutes(dt) == (ToOrdinal(dt) * 24 + dt.hour) * 60 + dt.minute

DtLeq(a, b) == Minutes(a) <= Minutes(b)

DtLess(a, b) == Minutes(a) < Minutes(b)

datetime(y, m, d) == [year |-> y, month |-> m, day |-> d, hour |-> 0, minute |-> 0]

\* a bug is_dst could have: the window edges without the "+ 1"
is_dst_no_plus_one(now) ==
    LET dst_start_date == datetime(now.year, 4, 1)
        dst_end_date == datetime(now.year, 11, 1)
        dston == MinusDays(dst_start_date, weekday(dst_start_date))
        dstoff == MinusDays(dst_end_date, weekday(dst_end_date))
    IN  IF DtLeq(dston, now) /\ DtLess(now, dstoff)
        THEN <<PlusHour(now), "GMT +1">>
        ELSE <<now, "GMT">>

is_dst(now) ==
    LET dst_start_date == datetime(now.year, 4, 1)
        dst_end_date == datetime(now.year, 11, 1)
        dston == MinusDays(dst_start_date, weekday(dst_start_date) + 1)
        dstoff == MinusDays(dst_end_date, weekday(dst_end_date) + 1)
    IN  IF DtLeq(dston, now) /\ DtLess(now, dstoff)
        THEN <<PlusHour(now), "GMT +1">>
        ELSE <<now, "GMT">>

\* datetime.time(): the time of day of a datetime
time_of(dt) == <<dt.hour, dt.minute>>

TimeLess(a, b) == a[1] < b[1] \/ (a[1] = b[1] /\ a[2] < b[2])

TimeGeq(a, b) == ~TimeLess(a, b)

\* ------------------------------------------------------------ strings

\* Python's `sub in s` on the strings of the model
contains(sub, s) ==
    CASE sub = "Schedule" -> s \in {"Schedule", "OldSchedule"}
      [] sub = "True" -> s = "True"
      [] OTHER -> sub = s

\* "12x5".split('x'): hours, days
split_x(s) ==
    CASE s = "12x5" -> <<"12", "5">>
      [] s = "24x7" -> <<"24", "7">>
      [] s = "8x5" -> <<"8", "5">>
      [] OTHER -> <<s>>

\* "7,0".split(','): hour, minute
split_comma(s) ==
    CASE s = "7,0" -> <<"7", "0">>
      [] s = "19,0" -> <<"19", "0">>
      [] s = "25,0" -> <<"25", "0">>
      [] OTHER -> <<s>>

\* int() on the decimal strings of the model
int(s) ==
    CASE s = "0" -> 0
      [] s = "5" -> 5
      [] s = "7" -> 7
      [] s = "8" -> 8
      [] s = "12" -> 12
      [] s = "19" -> 19
      [] s = "24" -> 24
      [] s = "25" -> 25

\* ------------------------------------------------------- configuration

role_arns == [i \in 1 .. NumAccounts |-> i]

Schedules == {[allDay |-> "24x7", halfDay |-> "12x5"], [allDay |-> "12x5", halfDay |-> "12x5"]}

TimeConfigs ==
    {[startTime |-> "7,0", stopTime |-> "19,0"],
     [startTime |-> "19,0", stopTime |-> "7,0"],
     [startTime |-> "25,0", stopTime |-> "19,0"]}

MakeConfig(sched, t, untagged) ==
    [schedule |-> sched, times |-> t, stop_untagged_instances |-> untagged, role_arns |-> role_arns]

\* the documents the configuration object may hold
Configs ==
    {MakeConfig(s, t, "True") : s \in Schedules, t \in {x \in TimeConfigs : x.startTime # "25,0"}}
    \cup {MakeConfig(s, t, "False") : s \in {x \in Schedules : x.allDay # x.halfDay},
                                      t \in {x \in TimeConfigs : x.startTime # "19,0"}}

\* the clock readings datetime.datetime.now() may give
Nows ==
    {[year |-> 2019, month |-> 1, day |-> 15, hour |-> 6, minute |-> 0],
     [year |-> 2019, month |-> 1, day |-> 15, hour |-> 12, minute |-> 30],
     [year |-> 2019, month |-> 7, day |-> 15, hour |-> 18, minute |-> 0],
     [year |-> 2019, month |-> 7, day |-> 15, hour |-> 23, minute |-> 30]}

\* --------------------------------------------------------- snapshots

Tag(k, v) == [Key |-> k, Value |-> v]

\* the Tags an instance of a snapshot may carry; <<>> as Option: the
\* instance description has no 'Tags' key at all
TagChoices ==
    {None,
     Some(<<>>),
     Some(<<Tag("Name", "web")>>),
     Some(<<Tag("NoShutdown", "")>>),
     Some(<<Tag("Schedule", "")>>),
     Some(<<Tag("Schedule", "24x7")>>),
     Some(<<Tag("Schedule", "12x5")>>),
     Some(<<Tag("Schedule", "8x5")>>),
     Some(<<Tag("NoShutdown", ""), Tag("Schedule", "12x5")>>),
     Some(<<Tag("Schedule", "24x7"), Tag("OldSchedule", "12x5")>>)}

Instance(id, tags) ==
    [InstanceId |-> id, HasTags |-> tags # None, Tags |-> IF tags = None THEN <<>> ELSE tags[1]]

\* the instances i..n of a flat list, grouped into reservations: brk[j] says
\* that instance j starts a new reservation
RECURSIVE Group(_, _, _, _)
Group(tags, brk, i, acc) ==
    IF i > Len(tags) THEN acc
    ELSE LET inst == Instance(i, tags[i])
         IN  IF i = 1 \/ brk[i]
             THEN Group(tags, brk, i + 1, Append(acc, [Instances |-> <<inst>>]))
             ELSE Group(tags, brk, i + 1,
                        [acc EXCEPT ![Len(acc)].Instances = Append(@, inst)])

\* the responses of describe_instances: reservations of one or more
\* instances, instance identifiers unique
Snapshots ==
    {[Reservations |-> Group(tags, brk, 1, <<>>)] :
        <<tags, brk>> \in UNION {[1 .. n -> TagChoices] \X [1 .. n -> BOOLEAN] : n \in 0 .. MaxInstances}}

AllInstances(snapshot) ==
    UNION {{snapshot.Reservations[r].Instances[i] : i \in 1 .. Len(snapshot.Reservations[r].Instances)} :
           r \in 1 .. Len(snapshot.Reservations)}

Faults == {"none", "describe_instances", "start_instances", "stop_instances"}

Call(by, op, arg, fault) == [by |-> by, op |-> op, arg |-> arg, ok |-> fault # op]

\* ------------------------------------------------------ the classifier

\* stop_untagged_instances: the calls it makes. A client that is None raises
\* inside the try, before any call.
stop_untagged_instances(untagged_instance_ids, temporary_user, fault) ==
    IF temporary_user = None THEN <<>>
    ELSE <<Call("stop_untagged_instances", "stop_instances", untagged_instance_ids, fault)>>

\* action_on_instances: the calls it makes
action_on_instances(client_method, instance_ids, fault) ==
    IF instance_ids # <<>>
    THEN <<Call("action_on_instances", client_method, instance_ids, fault)>>
    ELSE <<>>

Keys(tags) == [i \in 1 .. Len(tags) |-> tags[i].Key]

InList(x, list) == \E i \in 1 .. Len(list) : list[i] = x

\* a bug the if / elif chain could have: the Schedule tag looked at first
tag_branch_schedule_first(tag_list) ==
    IF InList("Schedule", tag_list) THEN "Schedule"
    ELSE IF InList("NoShutdown", tag_list) THEN "NoShutdown"
    ELSE "untagged"

\* the branch of the if / elif / else chain an instance takes
tag_branch(tag_list) ==
    IF InList("NoShutdown", tag_list) THEN "NoShutdown"
    ELSE IF InList("Schedule", tag_list) THEN "Schedule"
    ELSE "untagged"

\* the loop over an instance's tags under `elif 'Schedule' in tag_list`
RECURSIVE schedule_tags(_, _, _, _, _)
schedule_tags(st, tags, t, first_id, cfg) ==
    IF t > Len(tags) THEN st
    ELSE LET tag == tags[t]
             st1 == IF ~contains("Schedule", tag.Key) THEN st
                    ELSE IF tag.Value = ""
                         THEN [st EXCEPT !.no_action_required = Append(@, first_id)]
                    ELSE IF tag.Value = cfg.schedule.allDay
                         THEN [st EXCEPT !.no_action_required = Append(@, first_id)]
                    ELSE IF tag.Value = cfg.schedule.halfDay
                         THEN [st EXCEPT !.action_required = Append(@, first_id)]
                    ELSE st
         IN  schedule_tags(st1, tags, t + 1, first_id, cfg)

\* one turn of `for instance in reservation['Instances']`; st.raised says that
\* an exception has left the loops
categorise_instance(st, reservation, instance, cfg, temporary_user, fault) ==
    IF st.raised THEN st
    ELSE IF ~instance.HasTags THEN [st EXCEPT !.raised = TRUE]
    ELSE LET tag_list == st.tag_list \o Keys(instance.Tags)
             first_id == reservation.Instances[1].InstanceId
             st1 == [st EXCEPT !.tag_list = tag_list]
             branch == tag_branch(tag_list)
         IN  IF branch = "NoShutdown"
             THEN [st1 EXCEPT !.no_action_required = Append(@, first_id)]
             ELSE IF branch = "Schedule"
             THEN schedule_tags(st1, instance.Tags, 1, first_id, cfg)
             ELSE IF contains("True", cfg.stop_untagged_instances)
             THEN LET untagged == Append(st1.untagged_instances, instance.InstanceId)
                  IN  [st1 EXCEPT !.untagged_instances = untagged,
                                  !.calls = @ \o stop_untagged_instances(untagged, temporary_user, fault)]
             ELSE st1

RECURSIVE instances_loop(_, _, _, _, _, _)
instances_loop(st, reservation, i, cfg, temporary_user, fault) ==
    IF i > Len(reservation.Instances) THEN st
    ELSE instances_loop(
            categorise_instance(st, reservation, reservation.Instances[i], cfg, temporary_user, fault),
            reservation, i + 1, cfg, temporary_user, fault)

\* `for reservation in data['Reservations']`, tag_list emptied for each
RECURSIVE reservations_loop(_, _, _, _, _, _)
reservations_loop(st, reservations, r, cfg, temporary_user, fault) ==
    IF r > Len(reservations) THEN st
    ELSE reservations_loop(
            instances_loop([st EXCEPT !.tag_list = <<>>], reservations[r], 1, cfg, temporary_user, fault),
            reservations, r + 1, cfg, temporary_user, fault)

\* categorise_instances: ret is the pair returned, or None after an exception;
\* calls are the untagged stop calls made. The snapshot, a dict holding the
\* 'Reservations' key, is never falsy.
categorise_instances(snapshot, cfg, temporary_user, fault) ==
    LET st0 == [action_required |-> <<>>, no_action_required |-> <<>>, untagged_instances |-> <<>>,
                tag_list |-> <<>>, calls |-> <<>>, raised |-> FALSE]
        st == reservations_loop(st0, snapshot.Reservations, 1, cfg, temporary_user, fault)
    IN  [ret |-> IF st.raised THEN None
                 ELSE Some([action_required |-> st.action_required,
                            no_action_required |-> st.no_action_required]),
         calls |-> st.calls]

\* get_instance_ids: a None client or a failing describe_instances raises
\* inside the try; a None from categorise_instances raises at the unpacking,
\* inside the try too
get_instance_ids(temporary_user, cfg, state, fault, snapshot) ==
    IF temporary_user = None THEN [ret |-> None, data |-> None, calls |-> <<>>]
    ELSE LET describe == Call("get_instance_ids", "describe_instances", state, fault)
         IN  IF ~describe.ok THEN [ret |-> None, data |-> None, calls |-> <<describe>>]
             ELSE LET c == categorise_instances(snapshot, cfg, temporary_user, fault)
                  IN  [ret |-> c.ret, data |-> Some(snapshot), calls |-> <<describe>> \o c.calls]

\* a bug the dispatcher could have: `else` for `elif now.time() >= stop`
dispatch_branch_else_stop(now_time, start, stop) ==
    IF TimeGeq(now_time, start) /\ TimeLess(now_time, stop) THEN "Start"
    ELSE "Stop"

\* a bug the dispatcher could have: the two branches exchanged
dispatch_branch_swapped(now_time, start, stop) ==
    IF TimeGeq(now_time, start) /\ TimeLess(now_time, stop) THEN "Stop"
    ELSE IF TimeGeq(now_time, stop) THEN "Start"
    ELSE "none"

\* the branch start_stop takes
dispatch_branch(now_time, start, stop) ==
    IF TimeGeq(now_time, start) /\ TimeLess(now_time, stop) THEN "Start"
    ELSE IF TimeGeq(now_time, stop) THEN "Stop"
    ELSE "none"

\* start_stop: raised says that unpacking the None get_instance_ids returned
\* raised out of start_stop
start_stop(now, start, stop, temporary_user, cfg, fault, snapshot) ==
    LET branch == dispatch_branch(time_of(now), start, stop)
        state == IF branch = "Start" THEN "stopped" ELSE "running"
        method == IF branch = "Start" THEN "start_instances" ELSE "stop_instances"
        g == get_instance_ids(temporary_user, cfg, state, fault, snapshot)
    IN  IF branch = "none"
        THEN [raised |-> FALSE, branch |-> branch, data |-> None, result |-> None, calls |-> <<>>]
        ELSE IF g.ret = None
        THEN [raised |-> TRUE, branch |-> branch, data |-> g.data, result |-> None, calls |-> g.calls]
        ELSE [raised |-> FALSE, branch |-> branch, data |-> g.data, result |-> g.ret,
              calls |-> g.calls \o action_on_instances(method, g.ret[1].action_required, fault)]

\* convert_to_datetime: None when datetime.time() rejects the hour or minute
convert_to_datetime(cfg_times, current_time) ==
    LET d == is_dst(current_time)
        s == split_comma(cfg_times.startTime)
        e == split_comma(cfg_times.stopTime)
        valid(t) == int(t[1]) \in 0 .. 23 /\ int(t[2]) \in 0 .. 59
    IN  IF valid(s) /\ valid(e)
        THEN Some([start_up_time |-> <<int(s[1]), int(s[2])>>,
                   stop_time |-> <<int(e[1]), int(e[2])>>,
                   now |-> d[1], tz |-> d[2]])
        ELSE None

is_weekday(day, halfDay) == day <= int(split_x(halfDay)[2]) - 1

\* ------------------------------------------------------ lambda_handler

InitHandler ==
    /\ pc = "fetch_config"
    /\ config = None
    /\ idx = 1
    /\ ec2_user = None
    /\ times = None
    /\ data = None
    /\ result = None
    /\ calls = <<>>
    /\ ran = FALSE
    /\ dispatched = {}
    /\ lambda_error = None

Init ==
    /\ InitHandler
    /\ dst_in = None
    /\ dst_out = None

\* fetch_config_from_s3: the configuration, or None when the role assumption,
\* the download or the parsing failed
FetchConfig ==
    /\ pc = "fetch_config"
    /\ \/ \E c \in Configs : config' = Some(c)
       \/ config' = None
    /\ pc' = "is_weekday"
    /\ UNCHANGED <<idx, ec2_user, times, data, result, calls, ran, dispatched, lambda_error, dst_vars>>

\* `if is_weekday(day, config['schedule']['halfDay'])`: subscripting a None
\* config raises to lambda_handler's except clause
WeekdayGate ==
    /\ pc = "is_weekday"
    /\ IF config = None
       THEN /\ lambda_error' = Some("config is None")
            /\ pc' = "done"
       ELSE /\ \E day \in 0 .. 6 :
                 pc' = IF is_weekday(day, config[1].schedule.halfDay) THEN "create_temp_user" ELSE "weekend"
            /\ UNCHANGED lambda_error
    /\ UNCHANGED <<config, idx, ec2_user, times, data, result, calls, ran, dispatched, dst_vars>>

\* `for role_arn in config['role_arns']` has no ARN left
LoopEnd ==
    /\ pc = "create_temp_user"
    /\ idx > Len(config[1].role_arns)
    /\ pc' = "done"
    /\ UNCHANGED <<config, idx, ec2_user, times, data, result, calls, ran, dispatched, lambda_error, dst_vars>>

\* the next role ARN: create_temp_user gives a client, or None when the role
\* assumption failed
CreateTempUser ==
    /\ pc = "create_temp_user"
    /\ idx <= Len(config[1].role_arns)
    /\ ec2_user' \in {Some("ec2"), None}
    /\ times' = None
    /\ data' = None
    /\ result' = None
    /\ calls' = <<>>
    /\ ran' = FALSE
    /\ pc' = "convert_to_datetime"
    /\ UNCHANGED <<config, idx, dispatched, lambda_error, dst_vars>>

\* `start_up_time, stop_time, now, tz = convert_to_datetime(config['times'])`:
\* unpacking None raises to lambda_handler's except clause
ConvertToDatetime ==
    /\ pc = "convert_to_datetime"
    /\ \E current_time \in Nows :
         LET t == convert_to_datetime(config[1].times, current_time)
         IN  /\ times' = t
             /\ IF t = None
                THEN /\ lambda_error' = Some("convert_to_datetime returned None")
                     /\ pc' = "done"
                ELSE /\ pc' = "start_stop"
                     /\ UNCHANGED lambda_error
    /\ UNCHANGED <<config, idx, ec2_user, data, result, calls, ran, dispatched, dst_vars>>

\* `start_stop(now, start_up_time, stop_time, ec2_user, config, tz)`, with what
\* the account holds and the call that fails drawn here
StartStop ==
    /\ pc = "start_stop"
    /\ \E fault \in Faults, snapshot \in Snapshots :
         LET t == times[1]
             r == start_stop(t.now, t.start_up_time, t.stop_time, ec2_user, config[1], fault, snapshot)
         IN  /\ data' = r.data
             /\ result' = r.result
             /\ calls' = r.calls
             /\ IF r.raised
                THEN /\ lambda_error' = Some("get_instance_ids returned None")
                     /\ pc' = "done"
                     /\ UNCHANGED idx
                ELSE /\ pc' = "create_temp_user"
                     /\ idx' = idx + 1
                     /\ UNCHANGED lambda_error
    /\ ran' = TRUE
    /\ dispatched' = dispatched \cup {idx}
    /\ UNCHANGED <<config, ec2_user, times, dst_vars>>

Next == FetchConfig \/ WeekdayGate \/ LoopEnd \/ CreateTempUser \/ ConvertToDatetime \/ StartStop

Spec == Init /\ [][Next]_vars

\* ------------------------------------------------------------- is_dst

\* the days the timestamps given to is_dst are drawn from: around both
\* window edges, and far from them
DstDays ==
    {<<3, d>> : d \in 24 .. 31} \cup {<<4, d>> : d \in 1 .. 2}
    \cup {<<10, d>> : d \in 24 .. 31} \cup {<<11, d>> : d \in 1 .. 2}
    \cup {<<1, 1>>, <<7, 15>>, <<12, 31>>}

DstInputs ==
    {[year |-> y, month |-> md[1], day |-> md[2], hour |-> h, minute |-> m] :
        y \in 2018 .. (2017 + NumYears), md \in DstDays, h \in {0, 12, 23}, m \in {0, 59}}

InitDst ==
    /\ InitHandler
    /\ dst_in \in {Some(now) : now \in DstInputs}
    /\ dst_out = None

ApplyIsDst ==
    /\ dst_out = None
    /\ dst_out' = Some(is_dst(dst_in[1]))
    /\ UNCHANGED <<dst_in, handler_vars>>

NextDst == ApplyIsDst

SpecDst == InitDst /\ [][NextDst]_vars

\* ------------------------------------------------------------ claims

\* the pass of this account called categorise_instances on data[1]
Categorised == ran /\ data # None

\* categorise_instances returned its two lists
Returned == Categorised /\ result # None

HasKey(inst, k) == inst.HasTags /\ InList(k, Keys(inst.Tags))

ScheduleValues(inst) == {inst.Tags[i].Value : i \in {j \in 1 .. Len(inst.Tags) : inst.Tags[j].Key = "Schedule"}}

\* the identifiers sent in the calls of one boto method made by one function
Sent(by, op) ==
    UNION {{calls[i].arg[j] : j \in 1 .. Len(calls[i].arg)} :
           i \in {k \in 1 .. Len(calls) : calls[k].by = by /\ calls[k].op = op}}

SentToStop == Sent("stop_untagged_instances", "stop_instances") \cup Sent("action_on_instances", "stop_instances")

SentToStart == Sent("action_on_instances", "start_instances")

\* C1: every instance of the snapshot whose tag keys include NoShutdown has
\* its own identifier in the no_action_required list categorise_instances
\* returns, whatever its Schedule tag.
C1_NoShutdownOwnIdInNoAction ==
    Returned =>
        \A inst \in AllInstances(data[1]) :
            HasKey(inst, "NoShutdown") => InList(inst.InstanceId, result[1].no_action_required)

\* C2: no instance whose Schedule tag equals config['schedule']['allDay']
\* (allDay different from halfDay) has its identifier in the InstanceIds of a
\* stop_instances call of the job.
C2_AllDayNeverStopped ==
    (Categorised /\ config[1].schedule.allDay # config[1].schedule.halfDay) =>
        \A inst \in AllInstances(data[1]) :
            (HasKey(inst, "Schedule") /\ config[1].schedule.allDay \in ScheduleValues(inst))
                => inst.InstanceId \notin SentToStop

\* C3: an instance with a Schedule tag and no NoShutdown tag has its own
\* identifier in no_action_required when the value is allDay or empty, and in
\* action_required when the value is halfDay (allDay and halfDay different).
C3_ScheduleOwnIdClassified ==
    (Returned /\ config[1].schedule.allDay # config[1].schedule.halfDay) =>
        \A inst \in AllInstances(data[1]) :
            (HasKey(inst, "Schedule") /\ ~HasKey(inst, "NoShutdown")) =>
                /\ (ScheduleValues(inst) \cap {config[1].schedule.allDay, ""} # {})
                     => InList(inst.InstanceId, result[1].no_action_required)
                /\ (config[1].schedule.halfDay \in ScheduleValues(inst))
                     => InList(inst.InstanceId, result[1].action_required)

\* C4: when stop_untagged_instances is "True", every instance with neither a
\* NoShutdown nor a Schedule tag is covered by a stop_instances call made
\* during the classification pass (stated for the passes that return their
\* lists and for the instances that carry a Tags list).
C4_UntaggedStopped ==
    (Returned /\ config[1].stop_untagged_instances = "True") =>
        \A inst \in AllInstances(data[1]) :
            (inst.HasTags /\ ~HasKey(inst, "NoShutdown") /\ ~HasKey(inst, "Schedule"))
                => inst.InstanceId \in Sent("stop_untagged_instances", "stop_instances")

\* C5: after one run of categorise_instances no identifier is in more than one
\* of action_required, no_action_required and the untagged stop calls.
C5_AtMostOneCollection ==
    Returned =>
        \A inst \in AllInstances(data[1]) :
            LET id == inst.InstanceId
                a == InList(id, result[1].action_required)
                n == InList(id, result[1].no_action_required)
                u == id \in Sent("stop_untagged_instances", "stop_instances")
            IN  ~(a /\ n) /\ ~(a /\ u) /\ ~(n /\ u)

\* C6: a failure inside a per-account sub-call does not stop the loop over the
\* role ARNs: when lambda_handler ends after reaching the loop, and none of its
\* own statements (the configuration, the time conversion) failed, every
\* configured role ARN has had its dispatcher pass.
C6_LoopSurvivesSubCallFailure ==
    (/\ pc = "done"
     /\ lambda_error # Some("config is None")
     /\ lambda_error # Some("convert_to_datetime returned None")) =>
        dispatched = 1 .. Len(config[1].role_arns)

ActionCalls ==
    LET c == SelectSeq(calls, LAMBDA x : x.by = "action_on_instances")
    IN  [i \in 1 .. Len(c) |-> <<c[i].op, c[i].arg>>]

DescribeCalls ==
    LET c == SelectSeq(calls, LAMBDA x : x.op = "describe_instances")
    IN  [i \in 1 .. Len(c) |-> c[i].arg]

NowTime == time_of(times[1].now)

InWindow == TimeGeq(NowTime, times[1].start_up_time) /\ TimeLess(NowTime, times[1].stop_time)

\* C7: in a pass whose sub-calls succeed, between start and stop the stopped
\* instances are described and start_instances is called on exactly the
\* action_required identifiers; from stop on, the running instances are
\* described and stop_instances is called on exactly them; no call for an
\* empty list.
C7_DispatchByWindow ==
    Returned =>
        LET ar == result[1].action_required
        IN  /\ InWindow =>
                /\ DescribeCalls = <<"stopped">>
                /\ ActionCalls = IF ar = <<>> THEN <<>> ELSE <<<<"start_instances", ar>>>>
            /\ TimeGeq(NowTime, times[1].stop_time) =>
                /\ DescribeCalls = <<"running">>
                /\ ActionCalls = IF ar = <<>> THEN <<>> ELSE <<<<"stop_instances", ar>>>>

C7_Witness ==
    /\ Returned
    /\ TimeGeq(NowTime, times[1].stop_time)
    /\ result[1].action_required # <<>>
    /\ ActionCalls = <<<<"stop_instances", result[1].action_required>>>>

\* C8 as stated: before start, whatever the order of start and stop, a pass
\* makes no call.
C8_NoActionBeforeStart_Original ==
    (ran /\ TimeLess(NowTime, times[1].start_up_time)) => calls = <<>>

\* C8 as amended: before start and before stop, whatever their order, a pass
\* makes no call.
C8_NoActionBeforeStartAndStop ==
    (ran /\ TimeLess(NowTime, times[1].start_up_time) /\ TimeLess(NowTime, times[1].stop_time))
        => calls = <<>>

C8_Witness ==
    /\ ran
    /\ ec2_user # None
    /\ TimeLess(NowTime, times[1].stop_time)
    /\ TimeLess(times[1].stop_time, times[1].start_up_time)
    /\ calls = <<>>

\* the ordinal of the most recent day of the week wd among the days
\* ord - last .. ord - first
MostRecent(wd, ord, first, last) == CHOOSE n \in (ord - last) .. (ord - first) : (n + 6) % 7 = wd

\* now is in [00:00 of the edge day before April 1, 00:00 of the edge day
\* before November 1) of its year
InDstWindow(now, wd, first, last) ==
    LET on == MostRecent(wd, ToOrdinal(datetime(now.year, 4, 1)), first, last)
        off == MostRecent(wd, ToOrdinal(datetime(now.year, 11, 1)), first, last)
    IN  on * 1440 <= Minutes(now) /\ Minutes(now) < off * 1440

\* C9 as stated: is_dst returns now + 1 hour and "GMT+1" exactly inside the
\* window from the most recent Monday on or before April 1 to the most recent
\* Monday on or before November 1, and now and "GMT" outside it.
C9_IsDstMondayWindow_Original ==
    dst_out # None =>
        LET now == dst_in[1]
            out == dst_out[1]
        IN  IF InDstWindow(now, 0, 0, 6)
            THEN Minutes(out[1]) = Minutes(now) + 60 /\ out[2] = "GMT+1"
            ELSE out[1] = now /\ out[2] = "GMT"

\* C9 as amended: the window runs from the most recent Sunday before April 1
\* to the most recent Sunday before November 1, and the label inside it is
\* "GMT +1".
C9_IsDstSundayWindow ==
    dst_out # None =>
        LET now == dst_in[1]
            out == dst_out[1]
        IN  IF InDstWindow(now, 6, 1, 7)
            THEN Minutes(out[1]) = Minutes(now) + 60 /\ out[2] = "GMT +1"
            ELSE out[1] = now /\ out[2] = "GMT"

C9_Witness ==
    /\ dst_out # None
    /\ dst_in[1].month = 3
    /\ weekday(dst_in[1]) = 6
    /\ dst_in[1].hour = 0
    /\ dst_in[1].minute = 0
    /\ dst_out[1][2] = "GMT +1"
    /\ dst_out[1][1].hour = 1

\* C10: the identifier of an instance whose tag keys include NoShutdown is
\* never passed to start_instances or stop_instances in a start_stop pass.
C10_NoShutdownNeverTouched ==
    Categorised =>
        \A inst \in AllInstances(data[1]) :
            HasKey(inst, "NoShutdown") => inst.InstanceId \notin (SentToStop \cup SentToStart)

C10_Witness ==
    /\ Categorised
    /\ \E inst \in AllInstances(data[1]) :
         /\ HasKey(inst, "NoShutdown")
         /\ HasKey(inst, "Schedule")
         /\ config[1].schedule.halfDay \in ScheduleValues(inst)
    /\ SentToStop # {}

====
